---- MODULE Spec2Model ----
(***************************************************************************)
(* Model of shift72/caddy-geo-ip: the GeoIP caddy handler (src/main.go),   *)
(* the shared state it acquires from a caddy.UsagePool (src/state.go) with *)
(* its reload/download tickers, and the per-request resolver.              *)
(***************************************************************************)
EXTENDS Integers, Sequences, FiniteSets, TLC

\* ---------------------------------------------------------------- bounds
\* number of ticks the tickers deliver in one run
MaxTicks == 2
\* number of times the environment replaces or removes a watched file in one run
MaxFsWrites == 2
\* the same two budgets of a run that serves requests
MaxServeTicks == 2
MaxServeFsWrites == 1
\* and of a run checked for the termination of the ticker goroutine
MaxLiveTicks == 1
MaxLiveFsWrites == 1
\* and of a run over every refresh configuration
MaxModeTicks == 1
MaxModeFsWrites == 1
\* the file writes of a run that resolves requests with no ticker running
MaxResolveFsWrites == 1

\* ---------------------------------------------------------------- universe
Handlers == {"h1", "h2"}
Paths == {"pA", "pB"}
Nil == "nil"
NoHandle == 0
\* every reloadDatabase call opens at most one handle: the initial load of each
\* state and one per tick
MaxHandles == MaxTicks + 2
HandleIds == 1..MaxHandles

\* what the file at a path may be: missing, present but not a database,
\* or one of two database builds
FileStates == {"absent", "corrupt", "db1", "db2"}
Databases == {"db1", "db2"}

\* the threads that run state.reloadDatabase / state.downloadDatabase on a
\* state: the constructing Provision call and the two ticker goroutines
Threads == {"init", "download", "reload"}
Tickers == {"download", "reload"}

\* the configurations a handler may be provisioned with (GeoIP's JSON fields)
Cfg(p, a, k, d, r, t, o) ==
  [ DbPath |-> p, AccountID |-> a, APIKey |-> k, DownloadFrequency |-> d,
    ReloadFrequency |-> r, TrustHeader |-> t, OverrideCountryCode |-> o ]
\* download mode (a reload frequency set as well), reload mode, and neither
\* (an account without key)
Configs ==
  { Cfg("pA", 1, "key", 1, 1, "X-Real-IP", ""),
    Cfg("pB", 0, "", 0, 1, "", "AU"),
    Cfg("pA", 1, "", 1, 0, "X-Real-IP", "AU") }

\* every sign of the account id and of the two frequencies, with and without
\* a key
ModeConfigs ==
  { Cfg("pA", a, k, d, r, "", "") :
      a \in {-1, 0, 1}, k \in {"", "key"}, d \in {-1, 0, 1}, r \in {-1, 0, 1} }

VARIABLES
  hpc,       \* handler -> "new" | "acquired" | "constructing" | "ready" | "failed" | "gone"
  hcfg,      \* handler -> its configuration (a member of Configs) or Nil
  hstate,    \* handler -> m.state: the state object it is bound to, or Nil
  herr,      \* handler -> what GeoIP.Provision returned: "none" | "nil" | "error"
  pool,      \* caddy.UsagePool: key -> [refs, value, err, constructed]
  st,        \* state object (named by the handler whose factory built it) -> fields
  frame,     \* state object -> thread -> its call frame in reload/downloadDatabase
  sched,     \* state object -> ticker -> "none" | "select" | "tick" | "stopped"
  handles,   \* handle id -> [content, closes]; ids below nextHandle were opened
  nextHandle,
  fs,        \* path -> FileStates
  req,       \* the request in flight, with its outcome once it is done
  crashed,   \* a goroutine panicked: the process is gone
  destructs, \* state object -> number of Destruct calls made on it
  budget     \* [ticks, writes]: the ticks and the file writes the run may still make
vars == <<hpc, hcfg, hstate, herr, pool, st, frame, sched, handles, nextHandle,
          fs, req, crashed, destructs, budget>>

\* ---------------------------------------------------------------- helpers
Upd(f, k, v) == [x \in DOMAIN f \cup {k} |-> IF x = k THEN v ELSE f[x]]

IdleFrame == [pc |-> "idle", new |-> NoHandle, old |-> NoHandle, before |-> NoHandle,
              ret |-> "none", fetch |-> "none"]
NoState == [alloc |-> FALSE, dbInst |-> NoHandle, done |-> "nil", dbPath |-> Nil,
            config |-> FALSE, mu |-> "free", provErr |-> "none",
            visible |-> {NoHandle}, tickErrs |-> 0]
NoHandleRec == [content |-> Nil, closes |-> 0]
IdleReq == [pc |-> "idle", h |-> Nil, hdr |-> <<>>, cand |-> <<>>, ip |-> Nil,
            handle |-> NoHandle,
            installed |-> NoHandle, published |-> "none", result |-> "none"]

\* ---------------------------------------------------------------- main.go: GeoIP.Provision
\* main.go:88  the key every handler passes to pool.LoadOrNew
PoolKey(m) == "geoip.state"

\* a LoadOrNew that never finds the entry
LoadedNever(key) == FALSE

\* caddy.UsagePool.LoadOrNew: is there an entry for the key already
Loaded(key) == key \in DOMAIN pool

\* main.go:88  the handlers that have called LoadOrNew with the key
Acquirers(k) == {h \in Handlers : hpc[h] # "new" /\ PoolKey(hcfg[h]) = k}

\* main.go:92-93  the factory calls state.Provision and returns (&state, nil)
FactoryErr(provErr) == "nil"

\* a download branch that does not ask for the key
DownloadModeNoKey(m) == m.AccountID > 0 /\ m.DownloadFrequency > 0

\* state.go:35  the download ticker is started
DownloadMode(m) == m.AccountID > 0 /\ m.APIKey # "" /\ m.DownloadFrequency > 0

\* the reload branch as an "if" of its own, not the "else" of the download branch
ReloadModeNoElse(m) == m.ReloadFrequency > 0

\* state.go:75  the reload ticker is started
ReloadMode(m) == ~DownloadMode(m) /\ m.ReloadFrequency > 0

\* state.go:29-97  state.Provision up to the initial load: the channel, the
\* path, the download configuration, and the ticker goroutine of the mode
ProvisionStart(s, m) ==
  /\ st' = [st EXCEPT ![s] = [NoState EXCEPT !.alloc = TRUE, !.done = "open",
                                             !.dbPath = m.DbPath,
                                             !.config = DownloadMode(m)]]
  /\ sched' = [sched EXCEPT ![s] =
                 [k \in Tickers |->
                    IF \/ k = "download" /\ DownloadMode(m)
                       \/ k = "reload" /\ ReloadMode(m)
                    THEN "select" ELSE sched[s][k]]]
  /\ frame' = [frame EXCEPT ![s]["init"] =
                 [IdleFrame EXCEPT !.pc = IF DownloadMode(m) THEN "fetch" ELSE "lock"]]

\* main.go:68-94  GeoIP.Provision up to pool.LoadOrNew, m holding the fields
\* after the environment overrides of main.go:72-86: an existing entry gains
\* a reference, a missing one is inserted and the factory starts
Acquire(h, m) ==
  /\ ~crashed
  /\ hpc[h] = "new"
  /\ h = "h1" \/ hpc["h1"] # "new"   \* handlers are interchangeable: h1 goes first
  /\ hcfg' = [hcfg EXCEPT ![h] = m]
  /\ IF Loaded(PoolKey(m))
     THEN /\ pool' = [pool EXCEPT ![PoolKey(m)].refs = @ + 1]
          /\ hpc' = [hpc EXCEPT ![h] = "acquired"]
          /\ UNCHANGED <<st, sched, frame>>
     ELSE /\ pool' = Upd(pool, PoolKey(m), [refs |-> 1, value |-> Nil, err |-> "nil",
                                            constructed |-> FALSE])
          /\ hpc' = [hpc EXCEPT ![h] = "constructing"]
          /\ ProvisionStart(h, m)
  /\ UNCHANGED <<hstate, herr, handles, nextHandle, fs, req, crashed, destructs, budget>>

\* main.go:95-105  what GeoIP.Provision does with LoadOrNew's result
Bind(h, value, err) ==
  IF err # "nil"
  THEN /\ herr' = [herr EXCEPT ![h] = "error"]
       /\ hpc' = [hpc EXCEPT ![h] = "failed"]
       /\ UNCHANGED hstate
  ELSE /\ herr' = [herr EXCEPT ![h] = "nil"]
       /\ hpc' = [hpc EXCEPT ![h] = "ready"]
       /\ hstate' = [hstate EXCEPT ![h] = value]

\* state.go:74,100-105 and main.go:92-105  the initial load has returned:
\* state.Provision returns, the factory returns, the pool entry is published
\* and the constructing handler is bound
Construct(h) ==
  /\ ~crashed
  /\ hpc[h] = "constructing"
  /\ frame[h]["init"].pc = "ret"
  /\ LET e == IF frame[h]["init"].ret = "nil" THEN "nil" ELSE "error"
         k == PoolKey(hcfg[h])
     IN /\ st' = [st EXCEPT ![h].provErr = e]
        /\ pool' = [pool EXCEPT ![k].value = IF FactoryErr(e) = "nil" THEN h ELSE Nil,
                                ![k].err = FactoryErr(e),
                                ![k].constructed = TRUE]
        /\ Bind(h, h, FactoryErr(e))
  /\ frame' = [frame EXCEPT ![h]["init"] = IdleFrame]
  /\ UNCHANGED <<hcfg, sched, handles, nextHandle, fs, req, crashed, destructs, budget>>

\* main.go:88,95-105  a later acquirer reads the value of the entry once its
\* construction has finished
AcquireExisting(h) ==
  /\ ~crashed
  /\ hpc[h] = "acquired"
  /\ LET e == pool[PoolKey(hcfg[h])]
     IN /\ e.constructed
        /\ Bind(h, e.value, e.err)
  /\ UNCHANGED <<hcfg, pool, st, frame, sched, handles, nextHandle, fs, req, crashed,
                 destructs, budget>>

\* main.go:18-25  GeoIP is no caddy.CleanerUpper and has no Cleanup: when the
\* host unloads the handler (its requests drained) nothing is released
Teardown(h) ==
  /\ ~crashed
  /\ hpc[h] = "ready"
  /\ req.h # h
  /\ hpc' = [hpc EXCEPT ![h] = "gone"]
  /\ UNCHANGED <<hcfg, hstate, herr, pool, st, frame, sched, handles, nextHandle, fs,
                 req, crashed, destructs, budget>>

\* ---------------------------------------------------------------- state.go: reload, download
\* what oldInstance.Close() / dbInst.Close() may return
CloseResults == {"nil", "close_err"}

\* state.go:140-157  downloadDatabase before its reload: the fetch either
\* fails (logged, the file is left as it is) or writes a database build
Fetch(s, t, out) ==
  /\ ~crashed
  /\ frame[s][t].pc = "fetch"
  /\ fs' = IF out = "failed" THEN fs ELSE [fs EXCEPT ![st[s].dbPath] = out]
  /\ frame' = [frame EXCEPT ![s][t].pc = "lock",
                             ![s][t].fetch = IF out = "failed" THEN "failed" ELSE "ok"]
  /\ UNCHANGED <<hpc, hcfg, hstate, herr, pool, st, sched, handles, nextHandle, req,
                 crashed, destructs, budget>>

\* state.go:125 against main.go:128,143  the values of dbInst an unsynchronised
\* read may observe after thread t has written v: the write of the
\* constructing Provision call is ordered before every request (the handler
\* serves after Provision has returned) and hides the writes before it; a
\* write of a ticker goroutine is ordered with no request, so the values
\* written before it stay observable next to it
VisibleAfter(s, t, v) == IF t = "init" THEN {v} ELSE st[s].visible \cup {v}

\* a reload for which a missing file is an error like any other
StatOpenResultStrict(file) == "open_err"

\* state.go:113-121  what reloadDatabase returns for a file it installs no
\* handle for: nil when os.Stat reports that it does not exist, the error of
\* maxminddb.Open when it is no database
StatOpenResult(file) == IF file = "absent" THEN "nil" ELSE "open_err"

\* state.go:110-121  reloadDatabase takes the mutex, stats the file and opens
\* it: a missing file ends the call with nil, a file that is no database with
\* the error of maxminddb.Open (the mutex released, nothing else changed); a
\* database build gives a new open handle
RdOpen(s, t) ==
  /\ ~crashed
  /\ frame[s][t].pc = "lock"
  /\ st[s].mu = "free"
  /\ LET file == fs[st[s].dbPath]
     IN IF file \in Databases
        THEN /\ nextHandle <= MaxHandles
             /\ handles' = [handles EXCEPT ![nextHandle] =
                              [content |-> file, closes |-> 0]]
             /\ nextHandle' = nextHandle + 1
             /\ frame' = [frame EXCEPT ![s][t].pc = "swap", ![s][t].new = nextHandle,
                                       ![s][t].before = st[s].dbInst]
             /\ st' = [st EXCEPT ![s].mu = t]
        ELSE /\ frame' = [frame EXCEPT ![s][t].pc = "ret",
                                       ![s][t].ret = StatOpenResult(file),
                                       ![s][t].before = st[s].dbInst]
             /\ st' = [st EXCEPT ![s].visible = IF t = "init" THEN {st[s].dbInst}
                                                ELSE @]
             /\ UNCHANGED <<handles, nextHandle>>
  /\ UNCHANGED <<hpc, hcfg, hstate, herr, pool, sched, fs, req, crashed, destructs, budget>>

\* state.go:123-125  the new instance becomes the current one
RdSwap(s, t) ==
  /\ ~crashed
  /\ frame[s][t].pc = "swap"
  /\ st' = [st EXCEPT ![s].dbInst = frame[s][t].new,
                       ![s].visible = VisibleAfter(s, t, frame[s][t].new)]
  /\ frame' = [frame EXCEPT ![s][t].pc = "close", ![s][t].old = st[s].dbInst]
  /\ UNCHANGED <<hpc, hcfg, hstate, herr, pool, sched, handles, nextHandle, fs, req,
                 crashed, destructs, budget>>

\* a reload that drops the old instance without closing it
ClosesOldNever(old) == FALSE

\* state.go:127  the old instance is closed when there was one
ClosesOld(old) == old # NoHandle

\* state.go:127-137  the old instance, if any, is closed and the result of
\* its Close is the result of reloadDatabase; the mutex is released
RdClose(s, t) ==
  /\ ~crashed
  /\ frame[s][t].pc = "close"
  /\ LET old == frame[s][t].old
     IN IF ClosesOld(old)
        THEN /\ handles' = [handles EXCEPT ![old].closes = @ + 1]
             /\ \E r \in CloseResults :
                  frame' = [frame EXCEPT ![s][t].pc = "ret", ![s][t].ret = r]
        ELSE /\ frame' = [frame EXCEPT ![s][t].pc = "ret", ![s][t].ret = "nil"]
             /\ UNCHANGED handles
  /\ st' = [st EXCEPT ![s].mu = "free"]
  /\ UNCHANGED <<hpc, hcfg, hstate, herr, pool, sched, nextHandle, fs, req, crashed,
                 destructs, budget>>

\* ---------------------------------------------------------------- state.go: the tickers
\* state.go:60-63, 84-87  select takes the ticker case: the goroutine calls
\* downloadDatabase or reloadDatabase
Tick(s, k) ==
  /\ ~crashed
  /\ sched[s][k] = "select"
  /\ budget.ticks > 0
  /\ budget' = [budget EXCEPT !.ticks = @ - 1]
  /\ sched' = [sched EXCEPT ![s][k] = "tick"]
  /\ frame' = [frame EXCEPT ![s][k] =
                 [IdleFrame EXCEPT !.pc = IF k = "download" THEN "fetch" ELSE "lock"]]
  /\ UNCHANGED <<hpc, hcfg, hstate, herr, pool, st, handles, nextHandle, fs, req,
                 crashed, destructs>>

\* a loop that gives up at the first error
AfterTickStopOnError(ret) == IF ret = "nil" THEN "select" ELSE "stopped"

\* state.go:60-66, 84-90  where the goroutine goes when the call of a tick has
\* returned: back to the select, whatever the call returned
AfterTick(ret) == "select"

\* state.go:63-66, 87-90  the call returns, an error is logged, the loop goes on
TickReturn(s, k) ==
  /\ ~crashed
  /\ sched[s][k] = "tick"
  /\ frame[s][k].pc = "ret"
  /\ sched' = [sched EXCEPT ![s][k] = AfterTick(frame[s][k].ret)]
  /\ st' = [st EXCEPT ![s].tickErrs = IF frame[s][k].ret = "nil" THEN @ ELSE @ + 1]
  /\ frame' = [frame EXCEPT ![s][k] = IdleFrame]
  /\ UNCHANGED <<hpc, hcfg, hstate, herr, pool, handles, nextHandle, fs, req,
                 crashed, destructs, budget>>

\* a done case that is never ready
DoneReadyNever(s) == FALSE

\* state.go:67, 91  the done case of the select is ready once the channel is
\* closed (nothing is ever sent on it)
DoneReady(s) == st[s].done = "closed"

\* state.go:67-69, 91-93  select takes the done case: the goroutine returns
Stop(s, k) ==
  /\ ~crashed
  /\ sched[s][k] = "select"
  /\ DoneReady(s)
  /\ sched' = [sched EXCEPT ![s][k] = "stopped"]
  /\ UNCHANGED <<hpc, hcfg, hstate, herr, pool, st, frame, handles, nextHandle, fs, req,
                 crashed, destructs, budget>>

\* ---------------------------------------------------------------- state.go: Destruct
\* state.go:173-188  under the mutex: close(done) when done is not nil (a
\* closed channel panics), then Close of the current instance. Nothing in
\* main.go releases the pool entry, so the call comes from outside: the owner
\* of the pool value calls its caddy.Destructor, and does so only when every
\* handler that acquired it has been unloaded
Destruct(s) ==
  /\ ~crashed
  /\ \E k \in DOMAIN pool :
       /\ pool[k].constructed /\ pool[k].value = s
       /\ \A h \in Acquirers(k) : hpc[h] = "gone"
  /\ st[s].mu = "free"
  /\ destructs' = [destructs EXCEPT ![s] = @ + 1]
  /\ IF st[s].done = "closed"
     THEN /\ crashed' = TRUE
          /\ UNCHANGED <<st, handles>>
     ELSE /\ st' = [st EXCEPT ![s].done = IF @ = "nil" THEN "nil" ELSE "closed"]
          /\ handles' = IF st[s].dbInst # NoHandle
                        THEN [handles EXCEPT ![st[s].dbInst].closes = @ + 1]
                        ELSE handles
          /\ UNCHANGED crashed
  /\ UNCHANGED <<hpc, hcfg, hstate, herr, pool, frame, sched, nextHandle, fs, req, budget>>

\* ---------------------------------------------------------------- the environment
\* something outside the process replaces or removes the file a state watches
FsWrite(p, v) ==
  /\ ~crashed
  /\ \E s \in Handlers : st[s].alloc /\ st[s].dbPath = p
  /\ fs[p] # v
  /\ budget.writes > 0
  /\ budget' = [budget EXCEPT !.writes = @ - 1]
  /\ fs' = [fs EXCEPT ![p] = v]
  /\ UNCHANGED <<hpc, hcfg, hstate, herr, pool, st, frame, sched, handles, nextHandle,
                 req, crashed, destructs>>

\* ---------------------------------------------------------------- main.go: ServeHTTP
\* address texts are sequences of characters; "1" stands for a decimal number
V4Text == <<"1", ".", "1", ".", "1", ".", "1">>
V6Text == <<":", ":", "1">>
PortText == <<":", "1">>
\* candidate addresses: host:port, [host]:port, bare hosts, a bracketed host
\* without port, a name with a port
AddrTexts ==
  { V4Text \o PortText, <<"[">> \o V6Text \o <<"]">> \o PortText,
    V4Text, V6Text, <<"[">> \o V6Text \o <<"]">>, <<"x">> \o PortText }
\* what the transport reports as the peer address
PeerTexts == { V4Text \o PortText, <<"[">> \o V6Text \o <<"]">> \o PortText }

IndexOf(str, c) ==
  IF \E i \in 1..Len(str) : str[i] = c
  THEN CHOOSE i \in 1..Len(str) : str[i] = c /\ \A j \in 1..(i - 1) : str[j] # c
  ELSE 0
LastIndexOf(str, c) ==
  IF \E i \in 1..Len(str) : str[i] = c
  THEN CHOOSE i \in 1..Len(str) : str[i] = c /\ \A j \in (i + 1)..Len(str) : str[j] # c
  ELSE 0
Has(str, from, c) == \E i \in from..Len(str) : str[i] = c

\* a split that strips nothing
SplitHostPortWhole(hp) == [host |-> hp, err |-> FALSE]

\* net.SplitHostPort as main.go:116 uses it: the host, or "" with an error
SplitHostPort(hp) ==
  LET i == LastIndexOf(hp, ":")
      end == IndexOf(hp, "]")
      fail == [host |-> <<>>, err |-> TRUE]
  IN IF i = 0 THEN fail
     ELSE IF hp[1] = "["
     THEN IF end = 0 \/ end = Len(hp) \/ end + 1 # i THEN fail
          ELSE IF Has(hp, 2, "[") \/ Has(hp, end + 1, "]") THEN fail
          ELSE [host |-> SubSeq(hp, 2, end - 1), err |-> FALSE]
     ELSE IF Has(SubSeq(hp, 1, i - 1), 1, ":") THEN fail
          ELSE IF Has(hp, 1, "[") \/ Has(hp, 1, "]") THEN fail
          ELSE [host |-> SubSeq(hp, 1, i - 1), err |-> FALSE]

\* a parser that takes any text for an IPv4 address
ParseIPAny(text) == "ip4"

\* net.ParseIP as main.go:122 uses it: the address of a well-formed text, else nil
ParseIP(text) ==
  IF text = V4Text THEN "ip4" ELSE IF text = V6Text THEN "ip6" ELSE Nil

\* main.go:110-112  the candidate address of a request
Candidate(m, remote, hdr) ==
  IF m.TrustHeader # "" /\ hdr # <<>> THEN hdr ELSE remote

\* Reader.Lookup on an open handle: the record of the build for the address
\* (a zero record when nothing matches), or an error. db1 is a build whose
\* country records carry iso_code and geoname_id, db2 one whose country
\* records carry iso_code alone and whose IPv6 tree fails to decode
ZeroRecord == [ISOCode |-> "", GeonameId |-> 0]
Lookup(content, ip) ==
  CASE content = "db1" /\ ip = "ip4" -> [err |-> FALSE, rec |-> [ISOCode |-> "NZ", GeonameId |-> 1]]
    [] content = "db1" /\ ip = "ip6" -> [err |-> FALSE, rec |-> ZeroRecord]
    [] content = "db2" /\ ip = "ip4" -> [err |-> FALSE, rec |-> [ISOCode |-> "US", GeonameId |-> 0]]
    [] OTHER -> [err |-> TRUE, rec |-> ZeroRecord]

\* the sentinel alone, the override forgotten
NoDatabaseCodeSentinelOnly(m) == "--"

\* main.go:128-137  no database loaded: the sentinel, then the override
NoDatabaseCode(m) ==
  IF m.OverrideCountryCode # "" THEN m.OverrideCountryCode ELSE "--"

\* a resolver that publishes the code of the record and nothing else
RecordCodeNoOverride(m, rec) == rec.ISOCode

\* main.go:149-161  a record was read: its code, then the override
RecordCode(m, rec) ==
  IF m.OverrideCountryCode # "" /\ rec.GeonameId = 0
  THEN m.OverrideCountryCode ELSE rec.ISOCode

\* main.go:110-126  a request arrives at a handler in service: the candidate
\* is split and parsed; an address that does not parse goes to the next handler
ReqStart(h, remote, hdr) ==
  /\ ~crashed
  /\ req.pc = "idle"
  /\ hpc[h] = "ready"
  /\ LET cand == Candidate(hcfg[h], remote, hdr)
         ip == ParseIP(SplitHostPort(cand).host)
     IN req' = IF ip = Nil
               THEN [IdleReq EXCEPT !.pc = "done", !.h = h, !.hdr = hdr, !.cand = cand,
                                    !.result = "next"]
               ELSE [IdleReq EXCEPT !.pc = "check", !.h = h, !.hdr = hdr, !.cand = cand,
                                    !.ip = ip,
                                    !.installed = st[hstate[h]].dbInst]
  /\ UNCHANGED <<hpc, hcfg, hstate, herr, pool, st, frame, sched, handles, nextHandle,
                 fs, crashed, destructs, budget>>

\* main.go:128,143  what a read of m.state.dbInst made without the mutex may
\* observe: one of the visible values, and none older than the value the
\* same request has read before (handles are numbered in the order they are
\* installed)
RacyRead(s, earlier) == {v \in st[s].visible : v >= earlier}

\* main.go:128-140  m.state.dbInst is read without the mutex and tested for nil
ReqCheck ==
  /\ ~crashed
  /\ req.pc = "check"
  /\ \E v \in RacyRead(hstate[req.h], NoHandle) :
       req' = IF v = NoHandle
              THEN [req EXCEPT !.pc = "done", !.published = NoDatabaseCode(hcfg[req.h]),
                               !.result = "next"]
              ELSE [req EXCEPT !.pc = "lookup", !.handle = v]
  /\ UNCHANGED <<hpc, hcfg, hstate, herr, pool, st, frame, sched, handles, nextHandle,
                 fs, crashed, destructs, budget>>

\* main.go:143  m.state.dbInst is read again, without the mutex, and Lookup is
\* called on it
ReqLookup ==
  /\ ~crashed
  /\ req.pc = "lookup"
  /\ \E v \in RacyRead(hstate[req.h], req.handle) :
       req' = [req EXCEPT !.pc = "inlookup", !.handle = v]
  /\ UNCHANGED <<hpc, hcfg, hstate, herr, pool, st, frame, sched, handles, nextHandle,
                 fs, crashed, destructs, budget>>

\* what Lookup does on a handle that was closed before it returned: the
\* reader reports it, or the read of the unmapped file faults
ClosedLookupOutcomes == {"err", "fault"}

\* a resolver that swallows the error and goes on with the sentinel
LookupFailedSwallowed == [result |-> "next", published |-> "--"]

\* main.go:144-147  Lookup returned an error: ServeHTTP returns it; nothing
\* has been published and the next handler is not called
LookupFailed == [result |-> "error", published |-> "none"]

\* main.go:143-163  Lookup returns: an error fails the request, a record is
\* published and the next handler runs
ReqLookupReturn ==
  /\ ~crashed
  /\ req.pc = "inlookup"
  /\ \E o \in IF handles[req.handle].closes > 0 THEN ClosedLookupOutcomes
              ELSE {IF Lookup(handles[req.handle].content, req.ip).err
                    THEN "err" ELSE "rec"} :
       /\ crashed' = (o = "fault")
       /\ req' = CASE o = "rec" ->
                        [req EXCEPT !.pc = "done", !.result = "next",
                           !.published =
                              RecordCode(hcfg[req.h],
                                         Lookup(handles[req.handle].content, req.ip).rec)]
                   [] o = "err" -> [req EXCEPT !.pc = "done",
                                                !.result = LookupFailed.result,
                                                !.published = LookupFailed.published]
                   [] OTHER -> req
  /\ UNCHANGED <<hpc, hcfg, hstate, herr, pool, st, frame, sched, handles, nextHandle,
                 fs, destructs, budget>>

\* the response has been sent
ReqDone ==
  /\ ~crashed
  /\ req.pc = "done"
  /\ req' = IdleReq
  /\ UNCHANGED <<hpc, hcfg, hstate, herr, pool, st, frame, sched, handles, nextHandle,
                 fs, crashed, destructs, budget>>

\* ---------------------------------------------------------------- specifications
Start(b) ==
  /\ hpc = [h \in Handlers |-> "new"]
  /\ hcfg = [h \in Handlers |-> Nil]
  /\ hstate = [h \in Handlers |-> Nil]
  /\ herr = [h \in Handlers |-> "none"]
  /\ pool = <<>>
  /\ st = [s \in Handlers |-> NoState]
  /\ frame = [s \in Handlers |-> [t \in Threads |-> IdleFrame]]
  /\ sched = [s \in Handlers |-> [k \in Tickers |-> "none"]]
  /\ handles = [i \in HandleIds |-> NoHandleRec]
  /\ nextHandle = 1
  /\ fs = [p \in Paths |-> "absent"]
  /\ req = IdleReq
  /\ crashed = FALSE
  /\ destructs = [s \in Handlers |-> 0]
  /\ budget = b

\* the handlers, the pool and the shared state with its tickers; no request
\* is served, so one database build stands for all
Init == Start([ticks |-> MaxTicks, writes |-> MaxFsWrites])

Next ==
  \/ \E h \in Handlers, m \in Configs : Acquire(h, m)
  \/ \E h \in Handlers : Construct(h)
  \/ \E h \in Handlers : AcquireExisting(h)
  \/ \E h \in Handlers : Teardown(h)
  \/ \E s \in Handlers, t \in Threads, out \in {"db1", "failed"} : Fetch(s, t, out)
  \/ \E s \in Handlers, t \in Threads : RdOpen(s, t)
  \/ \E s \in Handlers, t \in Threads : RdSwap(s, t)
  \/ \E s \in Handlers, t \in Threads : RdClose(s, t)
  \/ \E s \in Handlers, k \in Tickers : Tick(s, k)
  \/ \E s \in Handlers, k \in Tickers : TickReturn(s, k)
  \/ \E s \in Handlers, k \in Tickers : Stop(s, k)
  \/ \E s \in Handlers : Destruct(s)
  \/ \E p \in Paths, v \in FileStates \ {"db2"} : FsWrite(p, v)

Spec == Init /\ [][Next]_vars

\* one handler in service, its shared state with its tickers and the requests
\* it serves, each from the peer address (no trusted header is sent); one
\* database build stands for all
InitServe == Start([ticks |-> MaxServeTicks, writes |-> MaxServeFsWrites])

NextServe ==
  \/ \E m \in Configs : Acquire("h1", m)
  \/ Construct("h1")
  \/ Teardown("h1")
  \/ \E t \in Threads, out \in {"db1", "failed"} : Fetch("h1", t, out)
  \/ \E t \in Threads : RdOpen("h1", t)
  \/ \E t \in Threads : RdSwap("h1", t)
  \/ \E t \in Threads : RdClose("h1", t)
  \/ \E k \in Tickers : Tick("h1", k)
  \/ \E k \in Tickers : TickReturn("h1", k)
  \/ \E k \in Tickers : Stop("h1", k)
  \/ Destruct("h1")
  \/ \E p \in Paths, v \in FileStates \ {"db2"} : FsWrite(p, v)
  \/ \E remote \in PeerTexts : ReqStart("h1", remote, <<>>)
  \/ ReqCheck
  \/ ReqLookup
  \/ ReqLookupReturn
  \/ ReqDone

SpecServe == InitServe /\ [][NextServe]_vars

\* one handler provisioned and serving requests of every peer address and
\* header value, before any tick
InitResolve == Start([ticks |-> 0, writes |-> MaxResolveFsWrites])

NextResolve ==
  \/ \E m \in Configs : Acquire("h1", m)
  \/ Construct("h1")
  \/ \E t \in Threads, out \in Databases \cup {"failed"} : Fetch("h1", t, out)
  \/ \E t \in Threads : RdOpen("h1", t)
  \/ \E t \in Threads : RdSwap("h1", t)
  \/ \E t \in Threads : RdClose("h1", t)
  \/ \E p \in Paths, v \in FileStates : FsWrite(p, v)
  \/ \E remote \in PeerTexts, hdr \in AddrTexts \cup {<<>>} : ReqStart("h1", remote, hdr)
  \/ ReqCheck
  \/ ReqLookup
  \/ ReqLookupReturn
  \/ ReqDone

SpecResolve == InitResolve /\ [][NextResolve]_vars

\* one handler and its shared state, the goroutines scheduled fairly: a
\* goroutine that can take a step of reloadDatabase / downloadDatabase or
\* return from its select does so eventually (the Go scheduler starves no
\* runnable goroutine, and a select whose only ready case is done takes it);
\* nothing obliges the timer to tick, the host to call Destruct or the
\* environment to write the file
InitLive == Start([ticks |-> MaxLiveTicks, writes |-> MaxLiveFsWrites])

NextLive ==
  \/ \E m \in Configs : Acquire("h1", m)
  \/ Construct("h1")
  \/ Teardown("h1")
  \/ \E t \in Threads, out \in {"db1", "failed"} : Fetch("h1", t, out)
  \/ \E t \in Threads : RdOpen("h1", t)
  \/ \E t \in Threads : RdSwap("h1", t)
  \/ \E t \in Threads : RdClose("h1", t)
  \/ \E k \in Tickers : Tick("h1", k)
  \/ \E k \in Tickers : TickReturn("h1", k)
  \/ \E k \in Tickers : Stop("h1", k)
  \/ Destruct("h1")
  \/ \E p \in Paths, v \in FileStates \ {"db2"} : FsWrite(p, v)

Fairness ==
  /\ \A t \in Threads : WF_vars(\E out \in {"db1", "failed"} : Fetch("h1", t, out))
  /\ \A t \in Threads : WF_vars(RdOpen("h1", t))
  /\ \A t \in Threads : WF_vars(RdSwap("h1", t))
  /\ \A t \in Threads : WF_vars(RdClose("h1", t))
  /\ \A k \in Tickers : WF_vars(TickReturn("h1", k))
  /\ \A k \in Tickers : WF_vars(Stop("h1", k))

SpecLive == InitLive /\ [][NextLive]_vars /\ Fairness

\* one handler provisioned with any refresh configuration, up to its first ticks
InitMode == Start([ticks |-> MaxModeTicks, writes |-> MaxModeFsWrites])

NextMode ==
  \/ \E m \in ModeConfigs : Acquire("h1", m)
  \/ Construct("h1")
  \/ \E t \in Threads, out \in {"db1", "failed"} : Fetch("h1", t, out)
  \/ \E t \in Threads : RdOpen("h1", t)
  \/ \E t \in Threads : RdSwap("h1", t)
  \/ \E t \in Threads : RdClose("h1", t)
  \/ \E k \in Tickers : Tick("h1", k)
  \/ \E k \in Tickers : TickReturn("h1", k)
  \/ \E p \in Paths, v \in FileStates \ {"db2"} : FsWrite(p, v)

SpecMode == InitMode /\ [][NextMode]_vars

\* ---------------------------------------------------------------- claims
Built(k) == {s \in Acquirers(k) : st[s].alloc}
InService == {h \in Handlers : hpc[h] = "ready"}
Active(s) == {k \in Tickers : sched[s][k] \in {"select", "tick"}}

\* C1: the pool is keyed by database path: every handler in service is bound
\* to a state whose path is its own db_path, two handlers with different
\* db_path are bound to different states, two with the same db_path to the
\* same state, and there is one state per distinct path.
C1_KeyedByPath ==
  /\ \A h \in InService : st[hstate[h]].dbPath = hcfg[h].DbPath
  /\ \A g, h \in InService :
       (hcfg[g].DbPath = hcfg[h].DbPath) <=> (hstate[g] = hstate[h])
  /\ Cardinality({hstate[h] : h \in InService})
       = Cardinality({hcfg[h].DbPath : h \in InService})

\* C2: for every pool key the factory (and so state.Provision) has run exactly
\* once, whatever the number and interleaving of the Provision calls on it;
\* every handler in service on the key is bound to the state that one run
\* built, and a later acquirer has built none of its own.
C2_FactoryOnce ==
  \A k \in DOMAIN pool :
    /\ Cardinality(Built(k)) = 1
    /\ \A h \in Acquirers(k) \cap InService : hstate[h] \in Built(k)
    /\ pool[k].refs = Cardinality(Acquirers(k))
C2_Witness ==
  /\ InService = Handlers
  /\ hstate["h1"] = hstate["h2"]
  /\ ~st["h2"].alloc

\* C3: every handler that acquired the state releases its reference when it
\* is torn down, so the reference count is the number of handlers that still
\* hold the state, and the state is shut down once every acquirer has released.
C3_ReleasedAtTeardown ==
  \A k \in DOMAIN pool :
    LET holders == {h \in Acquirers(k) : hpc[h] # "gone"}
    IN /\ pool[k].refs = Cardinality(holders)
       /\ (holders = {} => \A s \in Built(k) : st[s].done = "closed")

\* C4: at most one ticker goroutine is active per state, and per pool key,
\* whatever the refresh mode and however many handlers were provisioned.
C4_OneTicker ==
  /\ \A s \in Handlers : Cardinality(Active(s)) <= 1
  /\ \A k \in DOMAIN pool :
       Cardinality({<<s, t>> \in Built(k) \X Tickers : t \in Active(s)}) <= 1
C4_Witness ==
  /\ InService = Handlers
  /\ \E s \in Handlers :
       /\ Active(s) = {"download"}
       /\ hcfg[s].ReloadFrequency > 0
       /\ \A h \in Handlers : DownloadMode(hcfg[h])

\* C5: Destruct is idempotent: a second call on the same state does not panic
\* and does not close the handle again.
C5_DestructTwice ==
  \A s \in Handlers :
    destructs[s] >= 2 =>
      /\ ~crashed
      /\ st[s].dbInst # NoHandle => handles[st[s].dbInst].closes <= 1

\* C6: no Lookup of a request runs on a handle that has been closed.
C6_NoLookupOnClosed ==
  req.pc = "inlookup" => handles[req.handle].closes = 0

\* C7: when the initial load of a state fails (the file is there but does not
\* open), the Provision of the handler that built it returns the error and the
\* handler does not go into service.
C7_OpenFailureFailsProvision ==
  \A h \in Handlers :
    (st[h].alloc /\ st[h].provErr = "error") => (herr[h] = "error" /\ hpc[h] # "ready")

\* C8: with a database file that never existed Provision succeeds and leaves
\* the handle unset, and a request with a parsable address that is handled
\* while no handle is loaded publishes the override code when one is
\* configured and "--" when none is, and goes on to the next handler.
NeverExisted(p) == fs[p] = "absent" /\ budget.writes = MaxServeFsWrites
C8_AbsentFile ==
  /\ \A h \in InService :
       NeverExisted(st[hstate[h]].dbPath) =>
         /\ herr[h] = "nil"
         /\ st[hstate[h]].provErr = "nil"
         /\ st[hstate[h]].dbInst = NoHandle
  /\ (req.pc = "done" /\ req.ip # Nil /\ st[hstate[req.h]].dbInst = NoHandle) =>
       /\ req.result = "next"
       /\ req.published = IF hcfg[req.h].OverrideCountryCode = "" THEN "--"
                          ELSE hcfg[req.h].OverrideCountryCode
C8_Witness ==
  /\ req.pc = "done"
  /\ req.ip # Nil
  /\ NeverExisted(st[hstate[req.h]].dbPath)
  /\ req.published = "AU"

\* C9: whenever reloadDatabase returns an error on a state that has not been
\* shut down, the current handle is the one of before the call and is open.
C9_ErrorKeepsHandle ==
  [][\A s \in Handlers : \A t \in Threads :
       ( /\ frame[s][t].pc # "ret"
         /\ frame'[s][t].pc = "ret"
         /\ frame'[s][t].ret # "nil"
         /\ destructs[s] = 0 ) =>
       /\ st'[s].dbInst = frame'[s][t].before
       /\ st'[s].dbInst # NoHandle => handles'[st'[s].dbInst].closes = 0]_vars

\* C10: every handle is closed at most once, and a superseded handle is
\* closed exactly once, after the new handle has been installed.
C10_ClosedOnce ==
  /\ \A i \in HandleIds : handles[i].closes <= 1
  /\ \A s \in Handlers : \A t \in Threads :
       /\ frame[s][t].pc = "swap" /\ st[s].dbInst # NoHandle
            => handles[st[s].dbInst].closes = 0
       /\ frame[s][t].pc = "ret" /\ frame[s][t].old # NoHandle
            => handles[frame[s][t].old].closes = 1 /\ st[s].dbInst # frame[s][t].old

\* C11: a request that started after a reload installed a handle reads that
\* handle or a later one, never a superseded value (an earlier handle or the
\* unset pointer), and every handle a request reads has been fully opened.
Observed == req.pc \in {"lookup", "inlookup"} \/ (req.pc = "done" /\ req.ip # Nil)
C11_FreshHandle ==
  /\ (Observed /\ req.installed # NoHandle) => req.handle >= req.installed
  /\ req.handle # NoHandle => handles[req.handle].content \in Databases

\* C12: a tick whose call returned an error does not stop the ticker
\* goroutine: a goroutine has stopped only when done is closed, after any
\* number of failed ticks the ticker of a state that is not shut down is
\* still active, and a tick taken after a failed one runs the call again.
C12_FailedTickContinues ==
  \A s \in Handlers :
    /\ \A k \in Tickers : sched[s][k] = "stopped" => st[s].done = "closed"
    /\ (st[s].tickErrs > 0 /\ st[s].done = "open") => Active(s) # {}
    /\ \A k \in Tickers : sched[s][k] = "tick" => frame[s][k].pc # "idle"
C12_Witness ==
  \E s \in Handlers : \E k \in Tickers :
    /\ st[s].tickErrs = 1
    /\ st[s].done = "open"
    /\ sched[s][k] = "tick"
    /\ frame[s][k].pc = "ret"
    /\ frame[s][k].ret # "nil"

\* C13: once Destruct has closed done no ticker goroutine takes a tick: no
\* call of downloadDatabase or reloadDatabase is started by a ticker of a
\* state whose done channel is closed, a pending tick included.
C13_NoTickAfterCancel ==
  [][\A s \in Handlers : \A k \in Tickers :
       (sched[s][k] = "select" /\ sched'[s][k] = "tick") => st[s].done # "closed"]_vars

\* C14: a ticker goroutine returns only when done has been closed, and once
\* done is closed every active ticker goroutine eventually returns (or the
\* process has gone down with a panic).
C14_LivesWithState ==
  /\ [](\A s \in Handlers : \A k \in Tickers :
          sched[s][k] = "stopped" => st[s].done = "closed")
  /\ \A s \in Handlers : \A k \in Tickers :
       (st[s].done = "closed" /\ sched[s][k] \in {"select", "tick"})
         ~> (sched[s][k] = "stopped" \/ crashed)
C14_Witness ==
  \E k \in Tickers :
    /\ sched["h1"][k] = "stopped"
    /\ destructs["h1"] = 1
    /\ budget.ticks = 0
    /\ ~crashed

\* C15: downloadDatabase goes on to reloadDatabase whatever the download did
\* and returns what the reload returns; when the download failed and the file
\* on disk opened, the call returns nil on a state (not shut down) whose
\* current handle is loaded and open.
C15_ReloadAfterDownload ==
  \A s \in Handlers : \A t \in Threads :
    LET f == frame[s][t]
    IN /\ f.fetch # "none" => f.pc \in {"lock", "swap", "close", "ret"}
       /\ (f.pc = "ret" /\ f.fetch = "failed" /\ f.new # NoHandle /\ destructs[s] = 0)
            => /\ f.ret = "nil"
               /\ st[s].dbInst # NoHandle
               /\ handles[st[s].dbInst].closes = 0

\* C16: the state built for a configuration runs the download ticker (and
\* loads by download-then-reload) iff account id > 0, the key is not empty and
\* the download frequency > 0; otherwise it runs the reload ticker iff the
\* reload frequency > 0; otherwise it runs no ticker and loads once.
C16_ModeSelection ==
  \A s \in Handlers :
    st[s].alloc =>
      LET m == hcfg[s]
          download == m.AccountID > 0 /\ m.APIKey # "" /\ m.DownloadFrequency > 0
          reload == ~download /\ m.ReloadFrequency > 0
      IN /\ (sched[s]["download"] # "none") <=> download
         /\ (sched[s]["reload"] # "none") <=> reload
         /\ st[s].config <=> download
         /\ \A t \in Threads : frame[s][t].fetch # "none" => download
         /\ \A k \in Tickers : frame[s][k].pc # "idle" => sched[s][k] = "tick"
C16_Witness ==
  /\ hpc["h1"] = "ready"
  /\ hcfg["h1"].AccountID > 0
  /\ hcfg["h1"].APIKey # ""
  /\ hcfg["h1"].DownloadFrequency = 0
  /\ hcfg["h1"].ReloadFrequency > 0
  /\ sched["h1"]["reload"] = "tick"

\* C17: the candidate of a request is the trusted header when one is
\* configured and present, else the peer address; for a candidate of the form
\* host:port or [host]:port the address looked up is the host, and a request
\* that publishes from a lookup publishes the code of the record the handle
\* it read holds for that host.
V4HostPort == V4Text \o PortText
V6HostPort == <<"[">> \o V6Text \o <<"]">> \o PortText
HostOf(cand) == IF cand = V4HostPort THEN "ip4" ELSE "ip6"
Trusted == hcfg[req.h].TrustHeader # "" /\ req.hdr # <<>>
C18_PortlessHeader ==
  (req.pc # "idle" /\ Trusted /\ req.hdr \in {V4Text, V6Text}) =>
    /\ req.ip = (IF req.hdr = V4Text THEN "ip4" ELSE "ip6")
    /\ req.pc = "done" => req.published # "none"

\* C19 as stated: a request whose lookup returned a record publishes the
\* override when one is configured and the record is a no-match (the zero
\* record), and the code of the record in every other case.
Answered == req.pc = "done" /\ req.handle # NoHandle /\ req.result = "next"
Answer == Lookup(handles[req.handle].content, req.ip).rec
RegionCodes == {"NZ", "US", "AU"}
C20_NeverEmptyCode ==
  req.published # "none" => req.published \in RegionCodes \cup {"--"}

\* C21: a request whose Lookup on a loaded handle returns an error fails with
\* it: it publishes no code and does not go on to the next handler; and a
\* request fails on no other path: one that failed had read a handle and its
\* Lookup returned an error.
LookupErred ==
  /\ req.handle # NoHandle
  /\ \/ handles[req.handle].closes > 0
     \/ (handles[req.handle].content = "db2" /\ req.ip = "ip6")
C21_LookupErrorFails ==
  req.pc = "done" =>
    /\ (req.handle # NoHandle /\ handles[req.handle].closes = 0
          /\ handles[req.handle].content = "db2" /\ req.ip = "ip6")
         => (req.result = "error" /\ req.published = "none")
    /\ req.result = "error" => (LookupErred /\ req.published = "none")
    /\ req.result \in {"next", "error"}
C21_Witness ==
  /\ req.pc = "done"
  /\ req.result = "error"
  /\ req.published = "none"
  /\ handles[req.handle].content = "db2"
  /\ handles[req.handle].closes = 0

\* C22: a request whose candidate, its port stripped, is no network address
\* does no lookup, publishes no code and goes on to the next handler; it is
\* not failed, whether a database is loaded or not.
NotAnAddress == req.cand \in {<<"x">> \o PortText, <<"[">> \o V6Text \o <<"]">>}
C22_UnparsableSkips ==
  (req.pc # "idle" /\ (NotAnAddress \/ req.ip = Nil)) =>
    /\ req.pc = "done"
    /\ req.ip = Nil
    /\ req.handle = NoHandle
    /\ req.published = "none"
    /\ req.result = "next"
C22_Witness ==
  /\ req.pc = "done"
  /\ req.cand = <<"x">> \o PortText
  /\ req.result = "next"
  /\ st[hstate[req.h]].dbInst # NoHandle

\* C23: Destruct is final: once it has run on a state, the state holds no
\* open handle, and no later step (a tick pending or in progress when it ran
\* included) installs one.
C23_ClosedIsTerminal ==
  \A s \in Handlers :
    destructs[s] > 0 =>
      (st[s].dbInst = NoHandle \/ handles[st[s].dbInst].closes > 0)

\* C24: a reloadDatabase call that finds no file returns nil and changes
\* nothing: the current handle, loaded or not, stays what it was, no handle
\* is opened or closed, and done and the mutex are as before.
C24_AbsentFileNoChange ==
  [][\A s \in Handlers : \A t \in Threads :
       ( /\ frame[s][t].pc = "lock"
         /\ frame'[s][t].pc # "lock"
         /\ fs[st[s].dbPath] = "absent" ) =>
       /\ frame'[s][t].pc = "ret"
       /\ frame'[s][t].ret = "nil"
       /\ st'[s].dbInst = st[s].dbInst
       /\ st'[s].done = st[s].done
       /\ st'[s].mu = st[s].mu
       /\ handles' = handles
       /\ nextHandle' = nextHandle]_vars
C24_Witness ==
  \E s \in Handlers : \E t \in Threads :
    /\ frame[s][t].pc = "ret"
    /\ frame[s][t].ret = "nil"
    /\ frame[s][t].new = NoHandle
    /\ frame[s][t].before # NoHandle
    /\ fs[st[s].dbPath] = "absent"
    /\ st[s].dbInst = frame[s][t].before
    /\ handles[st[s].dbInst].closes = 0

\* C25: whenever no reloadDatabase or Destruct call holds the mutex, every
\* handle that was opened is the current handle of a state or has been
\* closed, the handles opened by ticks that interleave with the initial load
\* or with Destruct included.
Opened == {i \in HandleIds : i < nextHandle}
C25_NoHandleLeaked ==
  (\A s \in Handlers : st[s].mu = "free") =>
    \A i \in Opened :
      \/ \E s \in Handlers : st[s].dbInst = i
      \/ handles[i].closes > 0
C25_Witness ==
  \E s \in Handlers :
    /\ destructs[s] = 1
    /\ st[s].mu = "free"
    /\ Cardinality(Opened) >= 2
    /\ st[s].dbInst # NoHandle
    /\ handles[st[s].dbInst].closes = 0

====
